---- MODULE Spec2Model ----
(***************************************************************************)
(* State-machine model of dantto4k's conditional-access core:               *)
(*   - AcasCard::getA0AuthKcl / AcasCard::ecm      (src/src/acasCard.cpp)   *)
(*   - AcasHandler (onEcm, decrypt, worker)        (src/src/acasHandler.cpp)*)
(*   - IOThread (triple-buffered producer/consumer) (src/src/ioThread.h)    *)
(* Two specifications: Spec (handler + card) and SpecIo (I/O pipeline).     *)
(***************************************************************************)
EXTENDS Integers, Sequences, FiniteSets, TLC

(***************************************************************************)
(* Bounds of the model.                                                     *)
(***************************************************************************)
\* number of distinct ECM blobs the demultiplexer may deliver
NumEcm == 2
\* number of ECMs that onEcm may enqueue in one run
MaxEcms == 2

\* length of one control word: the code's 0x10 bytes, scaled to one bit
KeyLen == 1

\* SHA-256 digest length: the code's 0x20 bytes, two control words
HashLen == 2 * KeyLen

Bit == {0, 1}
EcmSet == 1..NumEcm
Parity == {"EVEN", "ODD"}

RECURSIVE SeqsOfLen(_)
SeqsOfLen(n) ==
    IF n = 0 THEN {<<>>}
    ELSE {Append(s, b) : s \in SeqsOfLen(n - 1), b \in Bit}

RECURSIVE SumWeighted(_, _, _)
SumWeighted(s, i, j) ==
    IF j > Len(s) THEN 0
    ELSE (IF (i * j) % 2 = 0 THEN s[j] ELSE 0) + SumWeighted(s, i, j + 1)

\* SHA256::hash: a deterministic digest of HashLen bits (a toy mixing function)
Hash(s) == [i \in 1..HashLen |-> (SumWeighted(s, i, 1) + i) % 2]

\* masterKey (config.h), a fixed secret
masterKey == <<1, 0>>

(***************************************************************************)
(* AcasCard::getA0AuthKcl, as pure steps.                                   *)
(***************************************************************************)
\* line 52-56: kcl = SHA256(masterKey || a0init || a0response)
DeriveKcl(a0init, a0response) == Hash(masterKey \o a0init \o a0response)

\* line 58-62: hash = SHA256(kcl || a0init)
A0Check(k, a0init) == Hash(k \o a0init)

\* line 64: std::equal(hash.begin(), hash.end(), a0hash.begin()) compares
\* hash against the first Len(hash) bytes of a0hash.  When a0hash is shorter
\* the read runs past its end (undefined behaviour): either outcome.
StdEqualOutcomes(hash, a0hash) ==
    IF Len(a0hash) >= Len(hash)
    THEN {\A i \in 1..Len(hash) : hash[i] = a0hash[i]}
    ELSE BOOLEAN

\* transport status codes of ISmartCard::transmit
TransportStatus == {"OK", "RESET_CARD", "INVALID_HANDLE", "OTHER"}

\* a tag with its first bit flipped
Flip(t) == [i \in 1..Len(t) |-> IF i = 1 THEN 1 - t[i] ELSE t[i]]

\* the authentication tags a card may return for a nonce and its own nonce:
\* the genuine tag, a wrong tag, and tags shorter or longer than the digest
A0Tags(a0init, a0response) ==
    LET t == Hash(Hash(masterKey \o a0init \o a0response) \o a0init) IN
    {t, Flip(t), SubSeq(t, 1, HashLen - 1), t \o <<0>>, Flip(t) \o <<0>>}

\* the replies a card can give to the A0 command carrying nonce a0init:
\* transport status, status word success, the card nonce and the tag
A0Replies(a0init) ==
    {[st |-> "OK", sw |-> sw, a0response |-> r, a0hash |-> t] :
        sw \in BOOLEAN, r \in {<<0>>}, t \in A0Tags(a0init, <<0>>)}
    \cup
    {[st |-> "OK", sw |-> sw, a0response |-> r, a0hash |-> t] :
        sw \in BOOLEAN, r \in {<<1>>}, t \in A0Tags(a0init, <<1>>)}
    \cup
    [st : TransportStatus \ {"OK"}, sw : {FALSE}, a0response : {<<0>>},
     a0hash : {<<>>}]

\* The result of getA0AuthKcl for a nonce and a card reply, for one outcome
\* eq of the comparison: [ret, wrote, kcl]
A0Result(a0init, reply, eq) ==
    LET k == DeriveKcl(a0init, reply.a0response) IN
    IF reply.st # "OK" THEN [ret |-> FALSE, wrote |-> FALSE, kcl |-> <<>>]
    ELSE IF ~reply.sw THEN [ret |-> FALSE, wrote |-> FALSE, kcl |-> <<>>]
    ELSE IF ~eq THEN [ret |-> FALSE, wrote |-> FALSE, kcl |-> <<>>]
    ELSE [ret |-> TRUE, wrote |-> TRUE, kcl |-> k]

(***************************************************************************)
(* AcasCard::ecm, pure steps.                                               *)
(***************************************************************************)
\* a budget of three retries instead of two
RetryAllowed_Three(rc) == ~(rc > 2)

\* line 101 / 113: a retry is taken unless retryCount > 1
RetryAllowed(rc) == ~(rc > 1)

\* line 112: the transport statuses that trigger a retry on the 34 command
Retriable34(ret) == ret = "RESET_CARD" \/ ret = "INVALID_HANDLE"

\* line 130: ecmInit = ecm[4 .. 4+0x17), modelled by the blob's identity
EcmInit(e) == <<e % 2>>

\* line 147-149: hash[i] ^= ecmResponse[i]
Xor(h, r) == [i \in 1..Len(h) |-> (h[i] + r[i]) % 2]

\* line 132-152: the control words of ECM e resolved as the n-th ECM
\* (every half carries the serial n of the resolution that produced it)
DeriveKey(k, e, ecmResponse, n) ==
    LET cw == Xor(Hash(k \o EcmInit(e)), ecmResponse) IN
    [odd  |-> [cw |-> SubSeq(cw, 1, KeyLen), from |-> n],
     even |-> [cw |-> SubSeq(cw, KeyLen + 1, 2 * KeyLen), from |-> n]]

\* the replies a card can give to the 34 command
EcmReplies ==
    [st : {"OK"}, sw : BOOLEAN,
     ecmResponse : {[i \in 1..HashLen |-> 0], [i \in 1..HashLen |-> 1]}]
    \cup
    [st : TransportStatus \ {"OK"}, sw : {FALSE},
     ecmResponse : {[i \in 1..HashLen |-> 0]}]

(***************************************************************************)
(* AcasHandler state.                                                       *)
(***************************************************************************)
VARIABLES
    queue,              \* std::queue of ECM blobs (queueMutex), each with the
                        \* serial of its enqueue
    lastEcm,            \* last ECM seen by onEcm (0: the empty vector)
    ecmReady,           \* set by onEcm after the first enqueue
    running,            \* cleared by the destructor
    key,                \* published DecryptionKey (keyMutex)
    lastPayloadKeyType, \* last served parity
    mpc,                \* main thread: idle | flipWait | serve | ret | joining | joined
    req,                \* the getDecryptionKey call in progress
    mret,               \* the return of the main-thread call that just ended
    wpc,                \* worker thread position
    ecmData,            \* worker's copy of queue.front()
    ecmRet,             \* result of AcasCard::ecm handed to the worker
    retryCount,         \* AcasCard::ecm local
    kcl,                \* AcasCard::ecm local (output of getA0AuthKcl)
    smartCardSet,       \* smartCard != nullptr
    cardInited,         \* ISmartCard::isInited()
    cardConnected,      \* ISmartCard::isConnected()
    scopeHeld,          \* live scoped transactions
    hist,               \* history counters of the handler
    call,               \* history of the AcasCard::ecm call in progress
    a0Last              \* record of the last getA0AuthKcl exchange

hvars == <<queue, lastEcm, ecmReady, running, key, lastPayloadKeyType, mpc,
           req, mret, wpc, ecmData, ecmRet, retryCount, kcl,
           smartCardSet, cardInited, cardConnected, scopeHeld, hist, call,
           a0Last>>

(***************************************************************************)
(* AcasHandler: initial state (acasHandler.h member initialisers).          *)
(***************************************************************************)
\* the value-initialised DecryptionKey no ECM resolution produced
InitKey ==
    [odd  |-> [cw |-> [i \in 1..KeyLen |-> 0], from |-> 0],
     even |-> [cw |-> [i \in 1..KeyLen |-> 0], from |-> 0]]

NoHalf == [cw |-> <<>>, from |-> 0]

\* a return of a main-thread call
\*   op, arg: the call; dup: onEcm found a duplicate; has: the value returned
\*   (onEcm's bool, or whether getDecryptionKey returned a key); half: the key
\*   half returned; flip: the parity differed from the last served one;
\*   pending: ECMs queued when the call began; progress: ECMs popped during
\*   the call; pub: key pairs published when the call returned
MRet(op, arg, dup, has, half, flip, pending, progress) ==
    [op |-> op, arg |-> arg, dup |-> dup, has |-> has, half |-> half,
     flip |-> flip, pending |-> pending, progress |-> progress,
     pub |-> hist.pub]

NoRet ==
    [op |-> "none", arg |-> 0, dup |-> FALSE, has |-> FALSE, half |-> NoHalf,
     flip |-> FALSE, pending |-> 0, progress |-> 0, pub |-> 0]

NoReq == [parity |-> "EVEN", flip |-> FALSE, pending |-> 0, popped |-> 0]

\* no ECM: the worker's empty ecmData vector
NoEcm == [ecm |-> 0, n |-> 0]

\* tx: scoped transactions acquired; a0: A0 exchanges; retries: jumps to
\* retry; kclTx: the transaction in which kcl was authenticated
NoCall == [tx |-> 0, a0 |-> 0, retries |-> 0, exhausted |-> FALSE,
           kclTx |-> 0]

NoA0 == [valid |-> FALSE, st |-> "none", stOk |-> FALSE, swOk |-> FALSE,
         tagEqual |-> FALSE, wrote |-> FALSE, ret |-> FALSE]

HandlerInit ==
    /\ queue = <<>>
    /\ lastEcm = 0
    /\ ecmReady = FALSE
    /\ running = TRUE
    /\ key = InitKey
    /\ lastPayloadKeyType = "UNSCRAMBLED"
    /\ mpc = "idle"
    /\ req = NoReq
    /\ mret = NoRet
    /\ wpc = "wait"
    /\ ecmData = NoEcm
    /\ ecmRet = [ok |-> FALSE, k |-> InitKey]
    /\ retryCount = 0
    /\ kcl = <<>>
    /\ smartCardSet = FALSE
    /\ cardInited = FALSE
    /\ cardConnected = FALSE
    /\ scopeHeld = 0
    /\ hist = [enq |-> 0, popped |-> 0, started |-> 0, returned |-> 0,
               succ |-> 0, pub |-> 0]
    /\ call = NoCall
    /\ a0Last = NoA0

(***************************************************************************)
(* AcasHandler: the main (demultiplexer) thread.                            *)
(***************************************************************************)
\* AcasHandler::setSmartCard -> AcasCard::setSmartCard
SetSmartCard ==
    /\ mpc = "idle"
    /\ ~smartCardSet
    /\ smartCardSet' = TRUE
    /\ UNCHANGED <<queue, lastEcm, ecmReady, running, key, lastPayloadKeyType,
                   mpc, req, mret, wpc, ecmData, ecmRet, retryCount, kcl,
                   cardInited, cardConnected, scopeHeld, hist, call, a0Last>>

\* no deduplication: every ECM is taken as new
IsDuplicate_Never(last, e) == FALSE

\* line 35: lastEcm == ecm
IsDuplicate(last, e) == last = e

\* AcasHandler::onEcm
OnEcm ==
    /\ mpc = "idle"
    /\ \E e \in EcmSet :
        \/ /\ IsDuplicate(lastEcm, e)
           /\ mret' = MRet("onEcm", e, TRUE, TRUE, NoHalf, FALSE, 0, 0)
           /\ UNCHANGED <<queue, lastEcm, ecmReady, hist>>
        \/ /\ ~IsDuplicate(lastEcm, e)
           /\ hist.enq < MaxEcms
           /\ lastEcm' = e
           /\ queue' = Append(queue, [ecm |-> e, n |-> hist.enq + 1])
           /\ ecmReady' = TRUE
           /\ mret' = MRet("onEcm", e, FALSE, TRUE, NoHalf, FALSE, 0, 0)
           /\ hist' = [hist EXCEPT !.enq = @ + 1]
    /\ mpc' = "ret"
    /\ UNCHANGED <<running, key, lastPayloadKeyType, req, wpc, ecmData,
                   ecmRet, retryCount, kcl, smartCardSet, cardInited,
                   cardConnected, scopeHeld, call, a0Last>>

\* line 116-121: the half of the pair matching keyType
KeyHalf(k, keyType) == IF keyType = "EVEN" THEN k.even ELSE k.odd

\* the result of wait_for ignored: the key is served after a timeout too
FlipWaitOutcome_Always(q) == "serve"

\* line 103-105: wait_for's predicate; "serve" when it holds, "timeout" when
\* the 10-second bound passes with the predicate false
FlipWaitOutcome(q) == IF q = <<>> THEN "serve" ELSE "timeout"

\* AcasHandler::decrypt -> getDecryptionKey, line 97-102
DecryptCall ==
    /\ mpc = "idle"
    /\ \E p \in Parity :
        \/ /\ ~ecmReady
           /\ mret' = MRet("decrypt", 0, FALSE, FALSE, NoHalf, FALSE, 0, 0)
           /\ mpc' = "ret"
           /\ UNCHANGED req
        \/ /\ ecmReady
           /\ lastPayloadKeyType # p
           /\ req' = [parity |-> p, flip |-> TRUE, pending |-> Len(queue),
                      popped |-> hist.popped]
           /\ mpc' = "flipWait"
           /\ UNCHANGED mret
        \/ /\ ecmReady
           /\ lastPayloadKeyType = p
           /\ req' = [parity |-> p, flip |-> FALSE, pending |-> Len(queue),
                      popped |-> hist.popped]
           /\ mpc' = "serve"
           /\ UNCHANGED mret
    /\ UNCHANGED <<queue, lastEcm, ecmReady, running, key, lastPayloadKeyType,
                   wpc, ecmData, ecmRet, retryCount, kcl, smartCardSet,
                   cardInited, cardConnected, scopeHeld, hist, call, a0Last>>

\* line 103-106: the wait returns with the queue empty
WaitReady ==
    /\ mpc = "flipWait"
    /\ FlipWaitOutcome(queue) = "serve"
    /\ mpc' = "serve"
    /\ UNCHANGED <<queue, lastEcm, ecmReady, running, key, lastPayloadKeyType,
                   req, mret, wpc, ecmData, ecmRet, retryCount, kcl,
                   smartCardSet, cardInited, cardConnected, scopeHeld, hist,
                   call, a0Last>>

\* line 106-109: the wait times out, getDecryptionKey returns nullopt and
\* decrypt returns false
WaitTimeout ==
    /\ mpc = "flipWait"
    /\ FlipWaitOutcome(queue) = "timeout"
    /\ mpc' = "ret"
    /\ mret' = MRet("decrypt", 0, FALSE, FALSE, NoHalf, TRUE, req.pending,
                    hist.popped - req.popped)
    /\ req' = NoReq
    /\ UNCHANGED <<queue, lastEcm, ecmReady, running, key, lastPayloadKeyType,
                   wpc, ecmData, ecmRet, retryCount, kcl, smartCardSet,
                   cardInited, cardConnected, scopeHeld, hist, call, a0Last>>

\* line 112-122, then decrypt line 56-89 with the key half
Serve ==
    /\ mpc = "serve"
    /\ lastPayloadKeyType' = req.parity
    /\ mret' = MRet("decrypt", 0, FALSE, TRUE, KeyHalf(key, req.parity),
                    req.flip, req.pending, hist.popped - req.popped)
    /\ mpc' = "ret"
    /\ req' = NoReq
    /\ UNCHANGED <<queue, lastEcm, ecmReady, running, key, wpc, ecmData,
                   ecmRet, retryCount, kcl, smartCardSet, cardInited,
                   cardConnected, scopeHeld, hist, call, a0Last>>

\* the call returns to the demultiplexer
Return ==
    /\ mpc = "ret"
    /\ mpc' = "idle"
    /\ mret' = NoRet
    /\ UNCHANGED <<queue, lastEcm, ecmReady, running, key, lastPayloadKeyType,
                   req, wpc, ecmData, ecmRet, retryCount, kcl, smartCardSet,
                   cardInited, cardConnected, scopeHeld, hist, call, a0Last>>

\* AcasHandler::~AcasHandler, line 23-28
Shutdown ==
    /\ mpc = "idle"
    /\ running
    /\ running' = FALSE
    /\ mpc' = "joining"
    /\ UNCHANGED <<queue, lastEcm, ecmReady, key, lastPayloadKeyType, req,
                   mret, wpc, ecmData, ecmRet, retryCount, kcl, smartCardSet,
                   cardInited, cardConnected, scopeHeld, hist, call, a0Last>>

\* AcasHandler::~AcasHandler, line 29-31
Join ==
    /\ mpc = "joining"
    /\ wpc = "exited"
    /\ mpc' = "joined"
    /\ UNCHANGED <<queue, lastEcm, ecmReady, running, key, lastPayloadKeyType,
                   req, mret, wpc, ecmData, ecmRet, retryCount, kcl,
                   smartCardSet, cardInited, cardConnected, scopeHeld, hist,
                   call, a0Last>>

(***************************************************************************)
(* AcasHandler::worker and, inside it, AcasCard::ecm.                       *)
(***************************************************************************)
mainVars == <<lastEcm, ecmReady, running, lastPayloadKeyType, mpc, req, mret>>

\* serial (intake order) of the ECM the worker is processing
CurSerial == ecmData.n

\* the worker takes the newest queued ECM
WorkerFront_Newest(q) == q[Len(q)]

\* line 138: ecmData = queue.front()
WorkerFront(q) == Head(q)

\* a worker that takes the next ECM while a card exchange is in progress
WorkerMayWake_Busy(pc, q, run) == pc \in {"wait", "a0"} /\ (q # <<>> \/ ~run)

\* a worker whose wait predicate does not test running
WorkerMayWake_IgnoreStop(pc, q, run) == pc = "wait" /\ q # <<>>

\* line 130-132: the worker leaves its wait when the queue is non-empty or
\* running is false; it waits only between two ECMs
WorkerMayWake(pc, q, run) == pc = "wait" /\ (q # <<>> \/ ~run)

\* a worker that pops the ECM before it publishes the pair
WorkerSeq_PopFirst(pc) ==
    CASE pc = "ecm" -> "pop"
      [] pc = "pop" -> "publish"
      [] pc = "publish" -> "wait"

\* line 141-151: the order of the worker's steps once it holds an ECM:
\* resolve, publish (line 142-145), pop (line 147-150), wait again
WorkerSeq(pc) ==
    CASE pc = "ecm" -> "publish"
      [] pc = "publish" -> "pop"
      [] pc = "pop" -> "wait"

\* line 126-139
WorkerWake ==
    /\ WorkerMayWake(wpc, queue, running)
    /\ IF ~running
       THEN wpc' = "exited" /\ UNCHANGED ecmData
       ELSE wpc' = "ecm_entry" /\ ecmData' = WorkerFront(queue)
    /\ UNCHANGED <<queue, key, ecmRet, retryCount, kcl, smartCardSet,
                   cardInited, cardConnected, scopeHeld, hist, call, a0Last>>
    /\ UNCHANGED mainVars

\* AcasCard::ecm line 81-87
EcmEntry ==
    /\ wpc = "ecm_entry"
    /\ retryCount' = 0
    /\ kcl' = <<>>
    /\ call' = NoCall
    /\ a0Last' = NoA0
    /\ IF ~smartCardSet
       THEN /\ ecmRet' = [ok |-> FALSE, k |-> InitKey]
            /\ wpc' = WorkerSeq("ecm")
            /\ hist' = [hist EXCEPT !.started = @ + 1, !.returned = @ + 1]
       ELSE /\ wpc' = "retry"
            /\ hist' = [hist EXCEPT !.started = @ + 1]
            /\ UNCHANGED ecmRet
    /\ UNCHANGED <<queue, key, ecmData, smartCardSet, cardInited,
                   cardConnected, scopeHeld>>
    /\ UNCHANGED mainVars

\* a scope object whose destructor does not end the transaction
ReleaseScope_Leak(h) == h

\* line 98: `scope` goes out of scope (return, goto retry, unwinding): the
\* transaction it holds is released
ReleaseScope(h) == h - 1

\* AcasCard::ecm returns false (scope, when held, is released by unwinding)
EcmFail(held, exhausted) ==
    /\ ecmRet' = [ok |-> FALSE, k |-> InitKey]
    /\ wpc' = WorkerSeq("ecm")
    /\ scopeHeld' = IF held = 1 THEN ReleaseScope(scopeHeld) ELSE scopeHeld
    /\ hist' = [hist EXCEPT !.returned = @ + 1]
    /\ call' = [call EXCEPT !.exhausted = exhausted]
    /\ UNCHANGED <<retryCount>>

\* line 105-106 / 117-118: ++retryCount; goto retry (leaving the scope of
\* `scope` releases the transaction)
EcmGotoRetry ==
    /\ retryCount' = retryCount + 1
    /\ wpc' = "retry"
    /\ scopeHeld' = ReleaseScope(scopeHeld)
    /\ call' = [call EXCEPT !.retries = @ + 1]
    /\ UNCHANGED <<ecmRet, hist>>

\* line 90-98: label retry, init/connect (either may throw runtime_error,
\* caught at line 156) and the scoped transaction
EcmAttempt ==
    /\ wpc = "retry"
    /\ \E initOk \in BOOLEAN, connectOk \in BOOLEAN :
        LET initThrows == ~cardInited /\ ~initOk
            connThrows == ~cardConnected /\ ~connectOk
        IN  IF initThrows
            THEN /\ EcmFail(0, FALSE)
                 /\ UNCHANGED <<cardInited, cardConnected>>
            ELSE IF connThrows
            THEN /\ EcmFail(0, FALSE)
                 /\ cardInited' = TRUE
                 /\ UNCHANGED <<cardConnected>>
            ELSE /\ cardInited' = TRUE
                 /\ cardConnected' = TRUE
                 /\ scopeHeld' = scopeHeld + 1
                 /\ call' = [call EXCEPT !.tx = @ + 1]
                 /\ wpc' = "a0"
                 /\ UNCHANGED <<ecmRet, hist, retryCount>>
    /\ a0Last' = NoA0
    /\ UNCHANGED <<queue, key, ecmData, kcl, smartCardSet>>
    /\ UNCHANGED mainVars

\* effect of a transport status on the card connection: a reset card or an
\* invalid handle leaves the port disconnected
CardAfter(st) ==
    /\ cardInited' = cardInited
    /\ cardConnected' = (cardConnected /\ st \notin {"RESET_CARD", "INVALID_HANDLE"})

\* line 100-107: getA0AuthKcl (line 16-79) and the retry on its failure
EcmA0 ==
    /\ wpc = "a0"
    /\ \E a0init \in SeqsOfLen(1) : \E reply \in A0Replies(a0init) :
        LET check == A0Check(DeriveKcl(a0init, reply.a0response), a0init) IN
        \E eq \in StdEqualOutcomes(check, reply.a0hash) :
            LET res == A0Result(a0init, reply, eq) IN
            /\ a0Last' = [valid |-> TRUE, st |-> reply.st,
                          stOk |-> reply.st = "OK",
                          swOk |-> reply.sw, tagEqual |-> check = reply.a0hash,
                          wrote |-> res.wrote, ret |-> res.ret]
            /\ CardAfter(reply.st)
            /\ IF res.ret
               THEN /\ kcl' = res.kcl
                    /\ wpc' = "cmd34"
                    /\ call' = [call EXCEPT !.a0 = @ + 1, !.kclTx = call.tx]
                    /\ UNCHANGED <<ecmRet, hist, retryCount, scopeHeld>>
               ELSE /\ UNCHANGED kcl
                    /\ IF RetryAllowed(retryCount)
                       THEN /\ retryCount' = retryCount + 1
                            /\ wpc' = "retry"
                            /\ scopeHeld' = ReleaseScope(scopeHeld)
                            /\ call' = [call EXCEPT !.a0 = @ + 1, !.retries = @ + 1]
                            /\ UNCHANGED <<ecmRet, hist>>
                       ELSE /\ ecmRet' = [ok |-> FALSE, k |-> InitKey]
                            /\ wpc' = WorkerSeq("ecm")
                            /\ scopeHeld' = ReleaseScope(scopeHeld)
                            /\ hist' = [hist EXCEPT !.returned = @ + 1]
                            /\ call' = [call EXCEPT !.a0 = @ + 1, !.exhausted = TRUE]
                            /\ UNCHANGED retryCount
    /\ UNCHANGED <<queue, key, ecmData, smartCardSet>>
    /\ UNCHANGED mainVars

\* line 156-160: a std::runtime_error thrown inside the transaction (by
\* transmit or by the response parsing) is caught; the call returns false
EcmThrow ==
    /\ wpc \in {"a0", "cmd34"}
    /\ EcmFail(1, FALSE)
    /\ a0Last' = NoA0
    /\ UNCHANGED <<queue, key, ecmData, kcl, smartCardSet, cardInited,
                   cardConnected>>
    /\ UNCHANGED mainVars

\* line 109-154: the 34 command and the derivation of the control words
EcmCmd34 ==
    /\ wpc = "cmd34"
    /\ \E reply \in EcmReplies :
        /\ CardAfter(reply.st)
        /\ IF reply.st # "OK"
           THEN IF Retriable34(reply.st)
                THEN IF RetryAllowed(retryCount)
                     THEN EcmGotoRetry
                     ELSE EcmFail(1, TRUE)
                ELSE EcmFail(1, FALSE)
           ELSE IF ~reply.sw
           THEN EcmFail(1, FALSE)
           ELSE /\ ecmRet' = [ok |-> TRUE,
                              k |-> DeriveKey(kcl, ecmData.ecm, reply.ecmResponse,
                                             CurSerial)]
                /\ wpc' = WorkerSeq("ecm")
                /\ scopeHeld' = ReleaseScope(scopeHeld)
                /\ hist' = [hist EXCEPT !.returned = @ + 1,
                                        !.succ = @ + 1]
                /\ UNCHANGED <<retryCount, call>>
    /\ a0Last' = NoA0
    /\ UNCHANGED <<queue, key, ecmData, kcl, smartCardSet>>
    /\ UNCHANGED mainVars

\* the pair is stored whatever AcasCard::ecm returned
PublishedKey_Always(cur, ret) == ret.k

\* line 142-145: key = k only if AcasCard::ecm returned true
PublishedKey(cur, ret) == IF ret.ok THEN ret.k ELSE cur

\* line 142-145: publication of the pair under keyMutex
WorkerPublish ==
    /\ wpc = "publish"
    /\ key' = PublishedKey(key, ecmRet)
    /\ hist' = IF ecmRet.ok THEN [hist EXCEPT !.pub = @ + 1] ELSE hist
    /\ wpc' = WorkerSeq("publish")
    /\ call' = NoCall
    /\ a0Last' = NoA0
    /\ UNCHANGED <<queue, ecmData, ecmRet, retryCount, kcl, smartCardSet,
                   cardInited, cardConnected, scopeHeld>>
    /\ UNCHANGED mainVars

\* line 147-151: pop under queueMutex, notify_all
WorkerPop ==
    /\ wpc = "pop"
    /\ queue' = Tail(queue)
    /\ hist' = [hist EXCEPT !.popped = @ + 1]
    /\ wpc' = WorkerSeq("pop")
    /\ call' = NoCall
    /\ a0Last' = NoA0
    /\ UNCHANGED <<key, ecmData, ecmRet, retryCount, kcl, smartCardSet,
                   cardInited, cardConnected, scopeHeld>>
    /\ UNCHANGED mainVars

(***************************************************************************)
(* IOThread (src/src/ioThread.h): the triple-buffered pipeline.             *)
(***************************************************************************)
\* sizes of the two areas of a buffer, scaled down from 1 MiB and 16 MiB
SPILL_OVER_AREA_SIZE == 1
NEW_DATA_AREA_SIZE == 2
\* longest input stream (two full reads and a partial one)
MaxInputLen == 5
\* most reports the consumer leaves queued in m_processedBuffersQueue
MaxReports == 1

NUM_BUFFERS == 3
BUFFER_SIZE == SPILL_OVER_AREA_SIZE + NEW_DATA_AREA_SIZE

BufIds == 1..NUM_BUFFERS
Min(a, b) == IF a < b THEN a ELSE b

\* BufferView: a span of len bytes at offset off of buffer buf (buf 0: the
\* default-constructed empty span)
EmptyView == [buf |-> 0, off |-> 0, len |-> 0]

VARIABLES
    input,        \* bytes of m_inputStream not yet read
    streamFail,   \* eofbit/failbit of m_inputStream
    freeQ,        \* m_freeBuffersQueue
    filledQ,      \* m_filledBuffersQueue: [buffer, len] (view = first len bytes)
    processedQ,   \* m_processedBuffersQueue: [buffer, view]
    mem,          \* contents of the three buffers
    ppc,          \* producer thread position
    workBuffer,   \* threadFunc local (0: null)
    report,       \* threadFunc local processed_report
    stopFlag,     \* m_stopFlag
    dpc,          \* ~IOThread position: alive | flagged | pushed1 | joining | joined
    kpc,          \* consumer thread: idle | inGet (blocked in getFilledBuffer)
    held,         \* consumer's hand: buffer -> length of its filled view, -1 not held
    io            \* history of the pipeline

iovars == <<input, streamFail, freeQ, filledQ, processedQ, mem, ppc,
            workBuffer, report, stopFlag, dpc, kpc, held, io>>

vars == <<hvars, iovars>>

\* the input stream of n bytes; byte i carries the value i, so that any loss,
\* duplication or reordering shows
Stream(n) == [i \in 1..n |-> i]

\* IOThread::IOThread, line 37-47, for an input of n bytes
IoInitWith(n) ==
    /\ input = Stream(n)
    /\ streamFail = FALSE
    /\ freeQ = [i \in 1..NUM_BUFFERS |-> i]
    /\ filledQ = <<>>
    /\ processedQ = <<>>
    /\ mem = [b \in BufIds |-> [i \in 1..BUFFER_SIZE |-> 0]]
    /\ ppc = "loop"
    /\ workBuffer = 0
    /\ report = [buffer |-> 0, view |-> EmptyView]
    /\ stopFlag = FALSE
    /\ dpc = "alive"
    /\ kpc = "idle"
    /\ held = [b \in BufIds |-> -1]
    /\ io = [full |-> Stream(n), phase |-> "start", cur |-> 0,
             consumed |-> <<>>, lastRem |-> <<>>, eofBreak |-> FALSE]

IoInit == \E n \in 0..MaxInputLen : IoInitWith(n)

\* ThreadSafeQueue::pop blocks until the queue holds an element, then
\* returns true
PopReady(q) == q # <<>>

\* line 80: while (!m_stopFlag)
ProducerLoop ==
    /\ ppc = "loop"
    /\ ppc' = IF stopFlag THEN "return" ELSE "popFree"
    /\ UNCHANGED <<input, streamFail, freeQ, filledQ, processedQ, mem,
                   workBuffer, report, stopFlag, dpc, kpc, held, io>>

\* line 82-86
ProducerPopFree ==
    /\ ppc = "popFree"
    /\ PopReady(freeQ)
    /\ workBuffer' = Head(freeQ)
    /\ freeQ' = Tail(freeQ)
    /\ ppc' = "popProcessed"
    /\ UNCHANGED <<input, streamFail, filledQ, processedQ, mem, report,
                   stopFlag, dpc, kpc, held, io>>

\* line 90-93
ProducerPopProcessed ==
    /\ ppc = "popProcessed"
    /\ PopReady(processedQ)
    /\ report' = Head(processedQ)
    /\ processedQ' = Tail(processedQ)
    /\ ppc' = "fill"
    /\ UNCHANGED <<input, streamFail, freeQ, filledQ, mem, workBuffer,
                   stopFlag, dpc, kpc, held, io>>

\* the returned buffer is dropped instead of recycled
RecycleReturned_Drop(fq, rpt) == fq

\* line 97-99: the buffer the consumer returned goes back to the free queue
RecycleReturned(fq, rpt) ==
    IF rpt.buffer # 0 THEN Append(fq, rpt.buffer) ELSE fq

\* the safeguard of line 105-108 left out
RemainingSize_NoClamp(v) == v.len

\* line 102-108: the number of leftover bytes copied
RemainingSize(v) ==
    IF v.len = 0 THEN 0
    ELSE IF v.len > SPILL_OVER_AREA_SIZE THEN SPILL_OVER_AREA_SIZE ELSE v.len

\* the bytes a view spans
ViewBytes(m, v) == [i \in 1..v.len |-> m[v.buf][v.off + i]]

\* the read always starts after the whole spill-over area
ReadOffset_Spill(remainingSize) == SPILL_OVER_AREA_SIZE

\* the read starts at the buffer's first byte, over the leftover
ReadOffset_Zero(remainingSize) == 0

\* line 113: where the newly read bytes are written (after the leftover)
ReadOffset(remainingSize) == remainingSize

\* line 109-113: the work buffer after the copy of the leftover bytes and
\* the read of the new bytes
FilledContents(old, leftover, remainingSize, new) ==
    [i \in 1..BUFFER_SIZE |->
        IF i > ReadOffset(remainingSize) /\ i <= ReadOffset(remainingSize) + Len(new)
        THEN new[i - ReadOffset(remainingSize)]
        ELSE IF i <= remainingSize THEN leftover[i]
        ELSE old[i]]

\* end of input signalled on any read that sets eofbit, a short read that
\* returned bytes included
SignalsEof_OnEofBit(bytesRead, eof) == eof

\* line 116: bytesRead == 0 && m_inputStream.eof()
SignalsEof(bytesRead, eof) == bytesRead = 0 /\ eof

\* line 97-126: recycle, copy the leftover, read, hand over or signal EOF
ProducerFill ==
    /\ ppc = "fill"
    /\ LET remainingSize == RemainingSize(report.view)
           leftover == SubSeq(ViewBytes(mem, report.view), 1, remainingSize)
           bytesRead == IF streamFail THEN 0
                        ELSE Min(NEW_DATA_AREA_SIZE, Len(input))
           new == SubSeq(input, 1, bytesRead)
           eof == streamFail \/ Len(input) < NEW_DATA_AREA_SIZE
       IN
       /\ freeQ' = RecycleReturned(freeQ, report)
       /\ report' = [report EXCEPT !.buffer = 0]
       /\ input' = SubSeq(input, bytesRead + 1, Len(input))
       /\ streamFail' = eof
       /\ mem' = [mem EXCEPT ![workBuffer] =
                      FilledContents(@, leftover, remainingSize, new)]
       /\ workBuffer' = 0
       /\ IF SignalsEof(bytesRead, eof)
          THEN /\ filledQ' = Append(filledQ, [buffer |-> 0, len |-> 0])
               /\ ppc' = "return"
               /\ io' = [io EXCEPT !.eofBreak = TRUE]
          ELSE /\ filledQ' = Append(filledQ, [buffer |-> workBuffer,
                                              len |-> remainingSize + bytesRead])
               /\ ppc' = "loop"
               /\ UNCHANGED io
    /\ UNCHANGED <<processedQ, stopFlag, dpc, kpc, held>>

\* line 127: threadFunc returns, the thread ends
ProducerReturn ==
    /\ ppc = "return"
    /\ ppc' = "stopped"
    /\ UNCHANGED <<input, streamFail, freeQ, filledQ, processedQ, mem,
                   workBuffer, report, stopFlag, dpc, kpc, held, io>>

(***************************************************************************)
(* The consumer: any sequence of getFilledBuffer / returnProcessedBuffer.   *)
(* io.phase follows the protocol of a conforming consumer: an empty report  *)
(* first, then get / return with a suffix of at most SPILL_OVER_AREA_SIZE   *)
(* bytes in turn; any other call makes it "bad", except that a consumer     *)
(* whose very first call is getFilledBuffer is in phase "getFirst".         *)
(***************************************************************************)
HeldIds == {b \in BufIds : held[b] >= 0}

\* the remaining_views a consumer reports: the empty view, or the tail of
\* the filled view of a buffer it holds, of any length (also longer than
\* SPILL_OVER_AREA_SIZE)
HeldViews ==
    {EmptyView} \cup
    UNION {{[buf |-> b, off |-> held[b] - l, len |-> l] : l \in 1..held[b]} :
           b \in HeldIds}

\* v is a suffix of the filled view of held buffer b, at most
\* SPILL_OVER_AREA_SIZE bytes long
IsSpillSuffix(b, v) ==
    /\ b # 0
    /\ held[b] >= 0
    /\ v.len <= SPILL_OVER_AREA_SIZE
    /\ \/ v = EmptyView
       \/ v.buf = b /\ v.len >= 1 /\ v.off + v.len = held[b]

\* line 65-69, entry: the consumer calls getFilledBuffer
ConsumerCallGet ==
    /\ dpc = "alive"
    /\ kpc = "idle"
    /\ kpc' = "inGet"
    /\ io' = IF io.phase = "awaiting" THEN io
             ELSE IF io.phase = "start" THEN [io EXCEPT !.phase = "getFirst"]
             ELSE [io EXCEPT !.phase = "bad", !.consumed = <<>>, !.lastRem = <<>>]
    /\ UNCHANGED <<input, streamFail, freeQ, filledQ, processedQ, mem, ppc,
                   workBuffer, report, stopFlag, dpc, held>>

\* line 65-69: the pop returns a filled buffer (or the empty sentinel)
ConsumerGet ==
    /\ kpc = "inGet"
    /\ PopReady(filledQ)
    /\ LET f == Head(filledQ) IN
       /\ filledQ' = Tail(filledQ)
       /\ held' = IF f.buffer # 0 THEN [held EXCEPT ![f.buffer] = f.len] ELSE held
       /\ io' = IF io.phase = "awaiting"
                THEN [io EXCEPT !.phase = IF f.buffer = 0 THEN "eof" ELSE "holding",
                                !.cur = f.buffer]
                ELSE [io EXCEPT !.phase = "bad", !.cur = 0, !.consumed = <<>>,
                                !.lastRem = <<>>]
    /\ kpc' = "idle"
    /\ UNCHANGED <<input, streamFail, freeQ, processedQ, mem, ppc, workBuffer,
                   report, stopFlag, dpc>>

\* line 72-74: returnProcessedBuffer with any buffer in hand (or none) and
\* any view
ConsumerReturn ==
    /\ dpc = "alive"
    /\ kpc = "idle"
    /\ Len(processedQ) < MaxReports
    /\ \E b \in HeldIds \cup {0}, v \in HeldViews :
        /\ processedQ' = Append(processedQ, [buffer |-> b, view |-> v])
        /\ held' = IF b # 0 THEN [held EXCEPT ![b] = -1] ELSE held
        /\ io' = IF io.phase = "start" /\ b = 0 /\ v = EmptyView
                 THEN [io EXCEPT !.phase = "awaiting"]
                 ELSE IF io.phase = "holding" /\ b = io.cur /\ IsSpillSuffix(b, v)
                 THEN [io EXCEPT
                         !.phase = "awaiting",
                         !.consumed = @ \o SubSeq(mem[b], 1, held[b] - v.len),
                         !.lastRem = SubSeq(mem[b], held[b] - v.len + 1, held[b])]
                 ELSE [io EXCEPT !.phase = "bad", !.consumed = <<>>,
                                 !.lastRem = <<>>]
    /\ UNCHANGED <<input, streamFail, freeQ, filledQ, mem, ppc, workBuffer,
                   report, stopFlag, dpc, kpc>>

(***************************************************************************)
(* IOThread::~IOThread, line 49-59.                                         *)
(***************************************************************************)
DestroyFlag ==
    /\ dpc = "alive"
    /\ kpc = "idle"
    /\ stopFlag' = TRUE
    /\ dpc' = "flagged"
    /\ UNCHANGED <<input, streamFail, freeQ, filledQ, processedQ, mem, ppc,
                   workBuffer, report, kpc, held, io>>

DestroyPushFilled ==
    /\ dpc = "flagged"
    /\ filledQ' = Append(filledQ, [buffer |-> 0, len |-> 0])
    /\ dpc' = "pushed1"
    /\ UNCHANGED <<input, streamFail, freeQ, processedQ, mem, ppc, workBuffer,
                   report, stopFlag, kpc, held, io>>

DestroyPushProcessed ==
    /\ dpc = "pushed1"
    /\ processedQ' = Append(processedQ, [buffer |-> 0, view |-> EmptyView])
    /\ dpc' = "joining"
    /\ UNCHANGED <<input, streamFail, freeQ, filledQ, mem, ppc, workBuffer,
                   report, stopFlag, kpc, held, io>>

DestroyJoin ==
    /\ dpc = "joining"
    /\ ppc = "stopped"
    /\ dpc' = "joined"
    /\ UNCHANGED <<input, streamFail, freeQ, filledQ, processedQ, mem, ppc,
                   workBuffer, report, stopFlag, kpc, held, io>>

(***************************************************************************)
(* Specifications.                                                          *)
(***************************************************************************)
Init == HandlerInit /\ IoInitWith(0)

Next ==
    \/ SetSmartCard /\ UNCHANGED iovars
    \/ OnEcm /\ UNCHANGED iovars
    \/ DecryptCall /\ UNCHANGED iovars
    \/ WaitReady /\ UNCHANGED iovars
    \/ WaitTimeout /\ UNCHANGED iovars
    \/ Serve /\ UNCHANGED iovars
    \/ Return /\ UNCHANGED iovars
    \/ Shutdown /\ UNCHANGED iovars
    \/ Join /\ UNCHANGED iovars
    \/ WorkerWake /\ UNCHANGED iovars
    \/ EcmEntry /\ UNCHANGED iovars
    \/ EcmAttempt /\ UNCHANGED iovars
    \/ EcmA0 /\ UNCHANGED iovars
    \/ EcmCmd34 /\ UNCHANGED iovars
    \/ EcmThrow /\ UNCHANGED iovars
    \/ WorkerPublish /\ UNCHANGED iovars
    \/ WorkerPop /\ UNCHANGED iovars

\* the access-control handler with its worker and card
Spec == Init /\ [][Next]_vars

\* the steps of the worker thread (AcasHandler::worker and, inside it,
\* AcasCard::ecm)
WorkerStep ==
    \/ WorkerWake
    \/ EcmEntry
    \/ EcmAttempt
    \/ EcmA0
    \/ EcmCmd34
    \/ EcmThrow
    \/ WorkerPublish
    \/ WorkerPop

\* line 129-136: the worker thread can take no step: it has left its loop,
\* or it sleeps in queueCv.wait with its predicate false
WorkerBlocked ==
    \/ wpc = "exited"
    \/ wpc = "wait" /\ ~WorkerMayWake(wpc, queue, running)

\* the handler under a fair scheduler: the worker thread takes a step when
\* it can (every card call in progress returns), and the destructor's join
\* returns once the worker has exited; the demultiplexer's calls are not
\* forced.  The worker's condition is WF_vars(WorkerStep /\ UNCHANGED iovars)
\* written out: WorkerStep is enabled exactly when ~WorkerBlocked, and the
\* worker's steps are exactly the steps that change wpc.
SpecFair ==
    /\ Spec
    /\ ([]<>WorkerBlocked \/ []<><<wpc' # wpc>>_wpc)
    /\ WF_vars(Join /\ UNCHANGED iovars)

InitIo == HandlerInit /\ IoInit

NextIo ==
    \/ ProducerLoop /\ UNCHANGED hvars
    \/ ProducerPopFree /\ UNCHANGED hvars
    \/ ProducerPopProcessed /\ UNCHANGED hvars
    \/ ProducerFill /\ UNCHANGED hvars
    \/ ProducerReturn /\ UNCHANGED hvars
    \/ ConsumerCallGet /\ UNCHANGED hvars
    \/ ConsumerGet /\ UNCHANGED hvars
    \/ ConsumerReturn /\ UNCHANGED hvars
    \/ DestroyFlag /\ UNCHANGED hvars
    \/ DestroyPushFilled /\ UNCHANGED hvars
    \/ DestroyPushProcessed /\ UNCHANGED hvars
    \/ DestroyJoin /\ UNCHANGED hvars

\* the I/O pipeline with its producer thread and any consumer
SpecIo == InitIo /\ [][NextIo]_vars

\* the steps of the producer thread (IOThread::threadFunc)
ProducerStep ==
    \/ ProducerLoop
    \/ ProducerPopFree
    \/ ProducerPopProcessed
    \/ ProducerFill
    \/ ProducerReturn

\* the steps of the thread running IOThread::~IOThread
DestroyStep ==
    \/ DestroyPushFilled
    \/ DestroyPushProcessed
    \/ DestroyJoin

\* the I/O pipeline under a fair scheduler: a thread that can take a step
\* eventually takes it (the producer, the destructor once entered, and a
\* consumer blocked in getFilledBuffer whose queue holds an element); the
\* consumer's calls themselves are not forced
SpecIoFair ==
    /\ SpecIo
    /\ WF_vars(ProducerStep /\ UNCHANGED hvars)
    /\ WF_vars(DestroyStep /\ UNCHANGED hvars)
    /\ WF_vars(ConsumerGet /\ UNCHANGED hvars)


(***************************************************************************)
(* Properties.                                                              *)
(***************************************************************************)

\* C1: getA0AuthKcl writes Kcl to its output only when the locally computed
\* check SHA256(kcl || a0init) equals the tag a0hash the card returned; on a
\* transport error, a non-success status word or a tag mismatch the output
\* is not written and the call returns false.
C1_KclOnlyWhenAuthenticated ==
    a0Last.valid =>
        /\ a0Last.wrote => (a0Last.stOk /\ a0Last.swOk /\ a0Last.tagEqual)
        /\ ~(a0Last.stOk /\ a0Last.swOk /\ a0Last.tagEqual)
               => (~a0Last.wrote /\ ~a0Last.ret)

\* C2: every key half getDecryptionKey returns belongs to a pair published
\* whole by one successful ECM resolution, and the published pair never
\* mixes the odd half of one resolution with the even half of another.
C2_HalfFromOnePublishedPair ==
    /\ key.odd.from = key.even.from
    /\ (mret.op = "decrypt" /\ mret.has) => mret.half.from \in 1..hist.enq

\* C3: at most one AcasCard::ecm call is in progress at any time: the worker
\* starts the call for the next queued ECM only after the previous call
\* returned.
C3_OneEcmInFlight ==
    /\ hist.started - hist.returned \in {0, 1}
    /\ hist.started <= hist.popped + 1

\* C3 witness: a second ECM is at the card after the first call returned.
C3_Witness ==
    /\ hist.started = 2
    /\ hist.returned = 1
    /\ wpc = "a0"

\* C6: onEcm called with the bytes of the last ECM returns true and changes
\* nothing: no enqueue (queue and its length unchanged), no card call started,
\* the worker is not moved.
C6_DuplicateEcmNoEffect ==
    [][(mret' # mret /\ mret'.op = "onEcm" /\ mret'.arg = lastEcm)
        => /\ mret'.has
           /\ queue' = queue
           /\ lastEcm' = lastEcm
           /\ hist' = hist
           /\ wpc' = wpc]_vars

\* C6 witness: a duplicate onEcm call returned while an ECM is queued.
C6_Witness ==
    /\ mret.op = "onEcm"
    /\ mret.dup
    /\ mret.arg = lastEcm
    /\ Len(queue) >= 1

\* C7: decrypt returns no key as long as no ECM resolution has succeeded and
\* published a pair (ECM still queued, being resolved, or failed at the
\* card); it never uses a key no ECM produced.
C7_NoKeyBeforePublication ==
    (mret.op = "decrypt" /\ mret.has) => (mret.pub >= 1 /\ mret.half.from # 0)

\* C8: when getDecryptionKey serves a key after a parity flip, every ECM
\* enqueued before the call has been completely processed: resolved, its
\* pair published if the resolution succeeded, and popped.
C8_FlipServesAfterDrain ==
    (mpc = "serve" /\ req.flip) =>
        /\ queue = <<>>
        /\ hist.popped = hist.enq
        /\ hist.returned = hist.enq
        /\ hist.pub = hist.succ
        /\ wpc = "wait"

\* C8 witness: a key is about to be served after a flip for which an ECM was
\* pending at the call and has since been resolved and published.
C8_Witness ==
    /\ mpc = "serve"
    /\ req.flip
    /\ req.pending >= 1
    /\ hist.popped > req.popped
    /\ hist.pub >= 1

\* C9: a call with a parity different from the last served one, made while an
\* ECM is pending, during which the worker completes no ECM, returns no key.
C9_TimeoutReturnsNoKey ==
    (mret.op = "decrypt" /\ mret.flip /\ mret.pending >= 1 /\ mret.progress = 0)
        => ~mret.has

\* C9 witness: the flip wait timed out on a pending ECM while the pair of the
\* previous crypto-period was published and its parity had been served.
C9_Witness ==
    /\ mret.op = "decrypt"
    /\ mret.flip
    /\ mret.pending >= 1
    /\ mret.progress = 0
    /\ ~mret.has
    /\ mret.pub >= 1
    /\ lastPayloadKeyType # "UNSCRAMBLED"

\* C10: one AcasCard::ecm call takes at most 2 retries, counted jointly over
\* the A0 path and the 34 path, hence at most 3 scoped transactions and 3 A0
\* exchanges; a failure that would need a third retry makes the call fail.
C10_RetryBudget ==
    /\ retryCount <= 2
    /\ call.retries <= 2
    /\ call.retries = retryCount \/ wpc \notin {"retry", "a0", "cmd34", "publish"}
    /\ call.tx <= 3
    /\ call.a0 <= 3
    /\ call.exhausted => (wpc = "publish" /\ ~ecmRet.ok /\ call.retries = 2)

\* C10 witness: the call failed on the budget after three transactions.
C10_Witness ==
    /\ call.exhausted
    /\ call.tx = 3
    /\ call.a0 = 3
    /\ call.retries = 2

\* C13: ECMs are resolved and their keys published in the order onEcm
\* enqueued them: the worker always works on the oldest ECM not yet popped,
\* the published pair is that of an ECM whose predecessors have all been
\* popped, and a publication replaces the pair only by the pair of a
\* later-enqueued ECM.
C13_PublishedInIntakeOrder ==
    /\ [](/\ key.odd.from <= hist.popped + 1
          /\ key.even.from = key.odd.from
          /\ wpc \in {"ecm_entry", "retry", "a0", "cmd34", "publish", "pop"}
                => ecmData.n = hist.popped + 1)
    /\ [][key' # key => key'.odd.from > key.odd.from]_vars

\* C13 witness: the pairs of two ECMs were published one after the other.
C13_Witness ==
    /\ hist.pub = 2
    /\ key.odd.from = 2
    /\ hist.popped = 2

\* C15 as stated: after shutdown the worker drains the ECM queue before it
\* exits.
C15_WorkerDrainsOnShutdown ==
    wpc = "exited" => queue = <<>>

\* C15 (amended): after shutdown is requested the worker is woken, finishes
\* at most the ECM it is working on, takes no further ECM from the queue and
\* exits leaving the queue as it is, and the destructor's join returns.
C15_ShutdownJoins ==
    /\ (mpc = "joining") ~> (mpc = "joined")
    /\ [][(wpc' = "exited" /\ wpc # "exited")
            => (~running /\ wpc = "wait" /\ queue' = queue)]_vars
    /\ [][(~running /\ wpc = "wait") => wpc' \in {"wait", "exited"}]_vars

\* C15 witness: the join returned while ECMs were still queued.
C15_Witness ==
    /\ mpc = "joined"
    /\ wpc = "exited"
    /\ queue # <<>>

\* C18: every attempt of AcasCard::ecm holds one scoped transaction from
\* its A0 exchange to its 34 command, never two at once and none outside an
\* attempt (before a retry acquires a new one, and after the call returned
\* by success, failure or exception); the kcl used with the 34 command was
\* authenticated in the same transaction.
C18_ScopedTransaction ==
    /\ scopeHeld \in {0, 1}
    /\ scopeHeld = 1 <=> wpc \in {"a0", "cmd34"}
    /\ wpc = "cmd34" => (call.kclTx = call.tx /\ kcl # <<>>)
    /\ wpc \in {"a0", "cmd34"} => call.tx = call.retries + 1

\* C18 witness: after a retry the 34 command is about to be sent in the
\* second transaction of the call.
C18_Witness ==
    /\ wpc = "cmd34"
    /\ call.tx = 2
    /\ call.retries = 1
    /\ scopeHeld = 1

\* C19: a failed ECM resolution leaves the published pair unchanged and
\* does not stop the worker: the pair changes only by the publication of a
\* successful resolution, the failed ECM is popped like any other and the
\* worker waits again, and the worker exits only on shutdown.
C19_FailureKeepsKeyAndWorker ==
    /\ [](wpc = "exited" => ~running)
    /\ [][(wpc = "publish" /\ ~ecmRet.ok)
            => (key' = key /\ wpc' \in {"publish", "pop"})]_vars
    /\ [][key' # key => (wpc = "publish" /\ ecmRet.ok /\ key' = ecmRet.k)]_vars
    /\ [][(wpc = "pop" /\ wpc' # "pop")
            => (queue' = Tail(queue) /\ wpc' = "wait")]_vars

\* C19 witness: the first ECM failed at the card, the pair published earlier
\* or initially stayed, and the second ECM was resolved and published.
C19_Witness ==
    /\ hist.returned = 2
    /\ hist.succ = 1
    /\ hist.pub = 1
    /\ key.odd.from = 2
    /\ smartCardSet

\* C11: a status word other than 0x9000 in answer to the A0 command makes
\* AcasCard::ecm fail without a retry: after the rejecting response the call
\* does not go back to the retry label to transmit again.
C11_RejectedSwNoRetry ==
    (a0Last.valid /\ a0Last.stOk /\ ~a0Last.swOk) => wpc # "retry"

\* C12: a transport status of the A0 command that is neither OK nor
\* RESET_CARD nor INVALID_HANDLE makes AcasCard::ecm fail without a retry.
C12_OtherStatusNoRetry ==
    (a0Last.valid /\ a0Last.st = "OTHER") => wpc # "retry"

(***************************************************************************)
(* Properties of the I/O pipeline.                                          *)
(***************************************************************************)
\* buffers owned by the elements of a queue
Owned(q) == Cardinality({i \in 1..Len(q) : q[i].buffer # 0})

\* live buffers: in the three queues, in the producer's hand (workBuffer,
\* processed_report.buffer) and in the consumer's hand
LiveBuffers ==
    Len(freeQ) + Owned(filledQ) + Owned(processedQ)
    + (IF workBuffer # 0 THEN 1 ELSE 0)
    + (IF report.buffer # 0 THEN 1 ELSE 0)
    + Cardinality(HeldIds)

\* C14: destroying the pipeline always terminates: from any reachable state
\* of the producer and for any consumer behaviour so far, once the stop flag
\* is set and the two sentinels are pushed the producer leaves its loop and
\* the destructor's join returns.
C14_DestroyTerminates ==
    (dpc = "joining") ~> (dpc = "joined")

\* C16: for every remaining_view the consumer returns, one longer than
\* SPILL_OVER_AREA_SIZE included, an iteration of the producer copies at
\* most SPILL_OVER_AREA_SIZE bytes to the start of its work buffer, reads at
\* most NEW_DATA_AREA_SIZE bytes after them, writes nothing outside these
\* bytes of that one buffer, and pushes a view of at most BUFFER_SIZE bytes.
C16_ClampedCopy ==
    [][(ppc = "fill" /\ ppc' # "fill") =>
        LET bytesRead == Len(input) - Len(input') IN
        /\ bytesRead \in 0..NEW_DATA_AREA_SIZE
        /\ \A i \in 1..Len(filledQ') : filledQ'[i].len <= BUFFER_SIZE
        /\ Len(filledQ') > Len(filledQ) /\ filledQ'[Len(filledQ')].buffer # 0
              => filledQ'[Len(filledQ')].len - bytesRead
                    \in 0..SPILL_OVER_AREA_SIZE
        /\ \A b \in BufIds :
              /\ DOMAIN mem'[b] = 1..BUFFER_SIZE
              /\ b # workBuffer => mem'[b] = mem[b]
        /\ \A i \in 1..BUFFER_SIZE :
              mem'[workBuffer][i] # mem[workBuffer][i]
                 => i <= SPILL_OVER_AREA_SIZE + bytesRead]_vars

\* C16 witness: the producer has just filled a whole buffer from a report
\* whose remaining_view was longer than SPILL_OVER_AREA_SIZE.
C16_Witness ==
    /\ ppc = "loop"
    /\ report.view.len > SPILL_OVER_AREA_SIZE
    /\ filledQ # <<>>
    /\ filledQ[Len(filledQ)].buffer # 0
    /\ filledQ[Len(filledQ)].len = BUFFER_SIZE

\* C17: for an input shorter than NEW_DATA_AREA_SIZE and a consumer that
\* follows the protocol, a filled buffer in the consumer's hand is the first
\* one and holds the whole (non-empty) input, and the EOF sentinel arrives
\* after that buffer was returned (at once for an empty input), when the
\* producer has left its loop for good.
C17_ShortInputOneBuffer ==
    Len(io.full) < NEW_DATA_AREA_SIZE =>
        /\ io.phase = "holding" =>
              /\ Len(io.full) >= 1
              /\ SubSeq(mem[io.cur], 1, held[io.cur]) = io.full
              /\ io.consumed = <<>>
              /\ io.lastRem = <<>>
        /\ io.phase = "eof" =>
              /\ ppc \in {"return", "stopped"}
              /\ io.eofBreak
              /\ io.consumed \o io.lastRem = io.full
              /\ input = <<>>

\* C17 witness: the consumer of a non-empty input shorter than one read
\* consumed it from one buffer and then received the EOF sentinel.
C17_Witness ==
    /\ Len(io.full) \in 1..(NEW_DATA_AREA_SIZE - 1)
    /\ io.phase = "eof"
    /\ io.consumed = io.full
    /\ ppc = "stopped"

\* C20 as stated: with a non-empty input, a consumer whose first action is
\* getFilledBuffer, no report sent beforehand, eventually receives the first
\* filled buffer.
C20_FirstGetNeedsNoReport ==
    (io.phase = "getFirst" /\ Len(io.full) >= 1) ~> (kpc = "idle")

\* C20 (amended): the producer's first iteration waits for a report: a
\* consumer whose first action is getFilledBuffer stays blocked with the
\* producer blocked on processed_q, while a consumer that first returns an
\* empty report and follows the protocol receives an answer to every
\* getFilledBuffer, the first being (for a non-empty input) a buffer whose
\* view holds only newly read bytes.
C20_FirstBufferAfterEmptyReport ==
    /\ (io.phase = "awaiting" /\ kpc = "inGet") ~> (kpc = "idle")
    /\ [](io.phase = "getFirst" =>
            /\ kpc = "inGet"
            /\ filledQ = <<>>
            /\ processedQ = <<>>
            /\ ppc \in {"loop", "popFree", "popProcessed"})
    /\ []((io.phase = "holding" /\ io.consumed = <<>> /\ io.lastRem = <<>>) =>
            /\ Len(io.full) >= 1
            /\ SubSeq(mem[io.cur], 1, held[io.cur])
                 = SubSeq(io.full, 1, Min(NEW_DATA_AREA_SIZE, Len(io.full))))

\* C20 witness: after an empty report the consumer holds the first filled
\* buffer of a non-empty input.
C20_Witness ==
    /\ io.phase = "holding"
    /\ io.consumed = <<>>
    /\ io.lastRem = <<>>
    /\ held[io.cur] = Min(NEW_DATA_AREA_SIZE, Len(io.full))
    /\ Len(io.full) > NEW_DATA_AREA_SIZE

\* C4 as stated: until the producer thread has stopped, the iteration that
\* detects end of input included, the number of live buffers is NUM_BUFFERS.
C4_LiveBuffersUntilStop ==
    ppc # "stopped" => LiveBuffers = NUM_BUFFERS

\* C4 (amended): the number of live buffers is NUM_BUFFERS until the
\* producer detects end of input, whatever buffers in hand and views the
\* consumer returns; the iteration that detects end of input destroys its
\* work buffer, and NUM_BUFFERS - 1 buffers are live from then on.
C4_LiveBuffersUntilEof ==
    LiveBuffers = (IF io.eofBreak THEN NUM_BUFFERS - 1 ELSE NUM_BUFFERS)

\* C4 witness: a consumer off the protocol holds a buffer, every buffer is
\* accounted for, and the producer has not met the end of input.
C4_Witness ==
    /\ io.phase = "bad"
    /\ ~io.eofBreak
    /\ Cardinality(HeldIds) >= 2
    /\ Owned(processedQ) = 1
    /\ workBuffer = 0

\* C5 as stated: for a conforming consumer, at the EOF sentinel the
\* concatenation of the consumed prefixes equals the input stream.
C5_ConsumedEqualsInput ==
    io.phase = "eof" => io.consumed = io.full

\* C5 (amended): for a conforming consumer the consumed prefixes followed by
\* the filled view in hand are a prefix of the input stream, the view begins
\* with the previous remaining_view, and at the EOF sentinel the consumed
\* prefixes followed by the last remaining_view equal the input stream.
C5_ConsumedPlusLeftover ==
    /\ io.phase = "eof" => io.consumed \o io.lastRem = io.full
    /\ io.phase = "holding" =>
          LET view == SubSeq(mem[io.cur], 1, held[io.cur]) IN
          /\ Len(view) >= Len(io.lastRem)
          /\ SubSeq(view, 1, Len(io.lastRem)) = io.lastRem
          /\ Len(io.consumed) + Len(view) <= Len(io.full)
          /\ io.consumed \o view = SubSeq(io.full, 1, Len(io.consumed) + Len(view))

\* C5 witness: the consumer of a stream longer than one read reached the EOF
\* sentinel having reported a non-empty last remaining_view.
C5_Witness ==
    /\ io.phase = "eof"
    /\ Len(io.full) > NEW_DATA_AREA_SIZE
    /\ Len(io.lastRem) >= 1
    /\ io.consumed \o io.lastRem = io.full

====
